---- MODULE Spec2Model ----
(***************************************************************************)
(* State-machine model of the camera-motion stabilisation engine of        *)
(* track-the-leader (HomographyService): the per-frame homography cache,   *)
(* the reference-frame state, and the point / polyline transforms.         *)
(*                                                                         *)
(* Numbers are exact rationals <<n, d>> (d > 0, lowest terms); IEEE        *)
(* rounding is not modelled, and the matrices the fitter returns have      *)
(* whole entries.  The vision backend (OpenCV.js) is the environment: how  *)
(* many keypoints an image yields is a function of the image, while match  *)
(* counts, the robust fit and thrown exceptions are chosen                 *)
(* nondeterministically at every call.                                     *)
(***************************************************************************)
EXTENDS Integers, Sequences, FiniteSets, TLC

(* ------------------------------ bounds -------------------------------- *)

\* frame indices range over 0..MaxFrame
MaxFrame == 2
\* images are 0..MaxImage
MaxImage == 2
\* polylines have at most MaxLine points
MaxLine == 2
\* car ids are 1..MaxCars, so a list of selections has at most MaxCars entries
MaxCars == 2
\* the longest list of objects that is followed from one
\* updateTrackedPositions call to the next
MaxFollowed == 1
\* a track line is mapped with at most MaxPoints clicks
MaxPoints == 5
\* at most MaxRuns segmentation runs are followed at a time
MaxRuns == 2

Frames == 0..MaxFrame
Images == 0..MaxImage

\* null is the empty sequence and a present value v is <<v>>, so that a strict
\* comparison of a value with null is well-defined (and false)
Null == <<>>
Some(v) == <<v>>

(* --------------------------- exact numbers ---------------------------- *)

Abs(i) == IF i < 0 THEN -i ELSE i

RECURSIVE Gcd(_, _)
Gcd(a, b) == IF b = 0 THEN a ELSE Gcd(b, a % b)

\* the rational n/d in lowest terms with a positive denominator (d # 0)
Rat(n, d) ==
    LET g == Gcd(Abs(n), Abs(d))
        s == IF d < 0 THEN -1 ELSE 1
    IN  <<(s * n) \div g, (s * d) \div g>>

Num(i) == <<i, 1>>
RAdd(a, b) == Rat(a[1] * b[2] + b[1] * a[2], a[2] * b[2])
RSub(a, b) == Rat(a[1] * b[2] - b[1] * a[2], a[2] * b[2])
RMul(a, b) == Rat(a[1] * b[1], a[2] * b[2])
\* a / b for b # 0
RDiv(a, b) == Rat(a[1] * b[2], a[2] * b[1])
\* a <= b
RLe(a, b) == a[1] * b[2] <= b[1] * a[2]

\* Math.abs(a) < 1e-10, i.e. |n| * 10^10 < d, written without overflow:
\* |n| <= floor((d - 1) / 10^10) = floor(floor((d - 1) / 10^5) / 10^5)
EpsRoot == 100000
NearZero(a) == Abs(a[1]) <= ((a[2] - 1) \div EpsRoot) \div EpsRoot

(* ----------------------------- matrices ------------------------------- *)

\* a 3x3 matrix of whole numbers, row-major; the matrices the service caches
\* are of this kind, the inverses it computes have rational entries
Mat3(a, b, c, d, e, f, g, h, i) == <<<<a, b, c>>, <<d, e, f>>, <<g, h, i>>>>

\* the same matrix with its entries as exact numbers
Exact(H) == [r \in 1..3 |-> [c \in 1..3 |-> Num(H[r][c])]]

\* getIdentityHomography(), lines 178-184
getIdentityHomography == Mat3(1, 0, 0, 0, 1, 0, 0, 0, 1)

\* matrices the robust fitter may return: a projective map (det 2) and a
\* singular matrix (det 0)
FitProjective == Mat3(2, 0, 0, 0, 1, 0, 1, 0, 1)
FitSingular == Mat3(1, 0, 0, 0, 0, 0, 0, 0, 1)
FitResults == {FitProjective, FitSingular}
\* an empty cv.Mat returned by cv.findHomography; a fitted matrix M is <<M>>
Empty == <<>>

\* the determinant of a matrix of exact numbers, as lines 492-495 compute it
Det(H) ==
    RAdd(RSub(RMul(H[1][1], RSub(RMul(H[2][2], H[3][3]), RMul(H[2][3], H[3][2]))),
              RMul(H[1][2], RSub(RMul(H[2][1], H[3][3]), RMul(H[2][3], H[3][1])))),
         RMul(H[1][3], RSub(RMul(H[2][1], H[3][2]), RMul(H[2][2], H[3][1]))))


(* --------------------------- vision backend --------------------------- *)

\* orb.detectAndCompute: the number of keypoints (= descriptor rows) an
\* image yields: image 0 is degenerate (none), image 1 yields three, image 2
\* four, ...
KeypointsOf(image) == IF image = 0 THEN 0 ELSE image + 2

\* what detectAndCompute leaves in the keypoint vector / descriptor matrix:
\* one row per keypoint, each row standing for a feature of that image
Extracted(image) == [k \in 1..KeypointsOf(image) |-> image]
\* a freshly allocated, still empty cv.Mat / cv.KeyPointVector
FreshEmpty == <<>>

Min(a, b) == IF a < b THEN a ELSE b

\* the filter threshold of computeHomography, in descriptor-distance units
matchThreshold == 50

\* bf.match yields n matches of which the first k lie just below the
\* threshold and the others exactly on it; the runs considered have all
\* matches below the threshold, or all but one
MatchVector(n, k) == [i \in 1..n |-> IF i <= k THEN matchThreshold - 1 ELSE matchThreshold]

\* the loop of computeHomography that keeps the matches below the threshold
GoodMatches(matches) == SelectSeq(matches, LAMBDA d : d < matchThreshold)

\* steps of the backend at which a call may throw
NoThrow == "none"

\* the runs of the backend inside computeHomography(_, image) against
\* reference descriptors with `rows` rows: where it throws (if at all), the
\* match vector of bf.match and the result of cv.findHomography; a step
\* the call does not reach is not run
BackendRuns(image, rows) ==
    LET n == Min(KeypointsOf(image), rows)
        run(t, k, fit) == [throwAt |-> t, matches |-> MatchVector(n, k), fit |-> fit]
        good == {n - 1, n} \cap (0..n)
    IN  {run("extract", 0, Empty), run(NoThrow, 0, Empty)}
        \cup (IF KeypointsOf(image) < 4 THEN {}
              ELSE {run("match", 0, Empty)} \cup {run(NoThrow, k, Empty) : k \in good})
        \cup (IF n < 4 THEN {}
              ELSE {run("fit", n, Empty)}
                   \cup {run(t, n, Some(fit)) : t \in {NoThrow, "release"}, fit \in FitResults})

\* the backend is not consulted on the two early-return paths
IdleRun == [throwAt |-> NoThrow, matches |-> <<>>, fit |-> Empty]

(* --------------------------- service state --------------------------- *)

VARIABLES
    homographies,          \* Map<number, Homography>: a function on the cached frame indices
    referenceFrameIndex,   \* signal<number | null>
    referenceFrameImage,   \* signal<ImageData | null>
    referenceKeypoints,    \* CVObject | null
    referenceDescriptors,  \* CVObject | null
    currentFrameIndex,     \* signal<number>
    cvReady,               \* signal<boolean>
    call,                  \* the last public call: its arguments, path and result
    lastSetReference,      \* history: how the most recent setReferenceFrame ended
    lastFit                \* history: the matrix of the last successful fit since construction / clear()

\* MotionTrackingService and the global it reads
VARIABLES
    cvLoaded,              \* the global cv exists and has cv.Mat
    trackingTemplates,     \* Map<number, CvMatLike>: a function on the ids that have a template
    lostTemplates,         \* template buffers no longer reachable and never released
    tcall                  \* the last call of the tracker: its arguments, paths and result

tracker == <<cvLoaded, trackingTemplates, lostTemplates, tcall>>

\* RaceLoopService, the signals it reads, the video element and the browser's
\* queue of animation-frame callbacks
VARIABLES
    animationFrameId,      \* number | null: the handle RaceLoopService keeps
    pendingFrames,         \* handles of the callbacks requestAnimationFrame has queued
    rendering,             \* where the render callback stands: "idle" between callbacks,
                           \* "request" once updateAndRender has returned
    paused,                \* video.paused || video.ended
    mode,                  \* RaceStateService.mode
    debugMode,             \* HomographyService.debugMode
    manualSelections,      \* RaceStateService.manualSelections
    loopCall,              \* the last call of the loop: start, stop or the render callback
    tick                   \* what the last updateAndRender did

loop == <<animationFrameId, pendingFrames, rendering, paused, mode, debugMode,
          manualSelections, loopCall, tick>>

\* RaceViewer: the track line being mapped
VARIABLES
    trackLine,             \* Point2D[]: the points clicked so far
    startIndex,            \* number | null: index (from 0) of the start / finish point
    nextCarId              \* the id the next marked car gets

editor == <<trackLine, startIndex, nextCarId>>

\* CarSelectionComponent and the segmentation runs it has started
VARIABLES
    carSelection,          \* the component's signals and nextCarId
    segmentation           \* the model's readiness, the runs that await a promise, and
                           \* what the last run to finish published

cars == <<carSelection, segmentation>>

\* everything outside the two engines
viewer == <<loop, editor, cars>>

vars == <<homographies, referenceFrameIndex, referenceFrameImage, referenceKeypoints,
          referenceDescriptors, currentFrameIndex, cvReady, call, lastSetReference, lastFit,
          tracker, viewer>>

\* the empty Map
EmptyMap == [i \in {} |-> getIdentityHomography]

\* Map.prototype.set
MapSet(m, k, v) == [i \in (DOMAIN m) \cup {k} |-> IF i = k THEN v ELSE m[i]]

\* no call yet: frameIndex and result are null or <<value>>, path is the kind
\* of branch a call took, out the polyline transformTrackLine returned
NoCall == [op |-> "constructor", frameIndex |-> Null, path |-> "", result |-> Null,
           out |-> <<>>]

(* -------------------------- getLastValidHomography -------------------- *)

\* the backward loop  for (i = frameIndex - 1; i >= 0; i--): the index of
\* the first entry found, -1 when the loop runs out
RECURSIVE LookBack(_, _)
LookBack(m, i) ==
    IF i < 0 THEN -1
    ELSE IF i \in DOMAIN m THEN i
    ELSE LookBack(m, i - 1)

\* a scan that starts at 0 and finds the oldest entry instead
RECURSIVE LookForward(_, _, _)
LookForward(m, i, frameIndex) ==
    IF i >= frameIndex THEN -1
    ELSE IF i \in DOMAIN m THEN i
    ELSE LookForward(m, i + 1, frameIndex)

getLastValidHomographyOldest(m, frameIndex) ==
    LET i == LookForward(m, 0, frameIndex)
        H == IF i >= 0 THEN m[i] ELSE getIdentityHomography
    IN  [homographies |-> MapSet(m, frameIndex, H), result |-> H]

\* a fallback that forgets to look back
getLastValidHomographyIdentity(m, frameIndex) ==
    [homographies |-> MapSet(m, frameIndex, getIdentityHomography),
     result |-> getIdentityHomography]

\* a getLastValidHomography that returns the entry it found without caching
\* it under frameIndex
getLastValidHomographyUncached(m, frameIndex) ==
    LET i == LookBack(m, frameIndex - 1)
        H == IF i >= 0 THEN m[i] ELSE getIdentityHomography
    IN  [homographies |-> m, result |-> H]

\* getLastValidHomography on the cache m: the cache afterwards and the result
getLastValidHomography(m, frameIndex) ==
    LET i == LookBack(m, frameIndex - 1)
        H == IF i >= 0 THEN m[i] ELSE getIdentityHomography
    IN  [homographies |-> MapSet(m, frameIndex, H), result |-> H]

(* ----------------------------- computeHomography ---------------------- *)

\* the result of one call on the cache m: the cache afterwards, the value
\* returned, the branch taken, and the descriptors bf.match was given
Outcome(m, H, path, matched) ==
    [homographies |-> m, result |-> H, path |-> path, matched |-> matched]

Fallback(m, frameIndex, path, matched) ==
    LET r == getLastValidHomography(m, frameIndex)
    IN  Outcome(r.homographies, r.result, path, matched)

\* lines 231-362: the try block, entered with reference descriptors present
TryCompute(m, descriptors, frameIndex, currentImage, run) ==
    IF run.throwAt = "extract"
    THEN Fallback(m, frameIndex, "exception", Null)
    ELSE IF KeypointsOf(currentImage) = 0 \/ KeypointsOf(currentImage) < 4
    THEN Fallback(m, frameIndex, "few_keypoints", Null)
    ELSE IF run.throwAt = "match"
    THEN Fallback(m, frameIndex, "exception", descriptors)
    ELSE IF Len(GoodMatches(run.matches)) < 4
    THEN Fallback(m, frameIndex, "few_matches", descriptors)
    ELSE IF run.throwAt = "fit"
    THEN Fallback(m, frameIndex, "exception", descriptors)
    ELSE IF run.fit = Empty
    THEN Fallback(m, frameIndex, "empty_fit", descriptors)
    ELSE IF run.throwAt = "release"
    THEN Fallback(MapSet(m, frameIndex, run.fit[1]), frameIndex, "exception", descriptors)
    ELSE Outcome(MapSet(m, frameIndex, run.fit[1]), run.fit[1], "fitted", descriptors)

\* computeHomography that forgets the reference-frame shortcut
computeHomographyNoShortcut(m, refIndex, ready, descriptors, frameIndex, currentImage, run) ==
    IF ~ready \/ descriptors = Null \/ Len(descriptors[1]) = 0
    THEN Outcome(MapSet(m, frameIndex, getIdentityHomography), getIdentityHomography,
                 "no_reference", Null)
    ELSE TryCompute(m, descriptors, frameIndex, currentImage, run)

\* computeHomography(frameIndex, currentImage), lines 212-363
computeHomography(m, refIndex, ready, descriptors, frameIndex, currentImage, run) ==
    IF Some(frameIndex) = refIndex
    THEN Outcome(MapSet(m, frameIndex, getIdentityHomography), getIdentityHomography,
                 "reference", Null)
    ELSE IF ~ready \/ descriptors = Null \/ Len(descriptors[1]) = 0
    THEN Outcome(MapSet(m, frameIndex, getIdentityHomography), getIdentityHomography,
                 "no_reference", Null)
    ELSE TryCompute(m, descriptors, frameIndex, currentImage, run)

\* the native buffers computeHomography allocated and has not released when
\* it returns.  Up to detectAndCompute it allocates currentMat, currentGray,
\* orb, currentKeypoints, currentDescriptors and the mask passed as
\* `new cv.Mat()`, which no path releases; then bf and matches; then srcMat,
\* dstMat and H.  The catch block releases nothing.
computeHomographyLive(refIndex, ready, descriptors, frameIndex, currentImage, run) ==
    IF Some(frameIndex) = refIndex THEN 0
    ELSE IF ~ready \/ descriptors = Null \/ Len(descriptors[1]) = 0 THEN 0
    ELSE IF run.throwAt = "extract" THEN 6
    ELSE IF KeypointsOf(currentImage) = 0 \/ KeypointsOf(currentImage) < 4 THEN 1
    ELSE IF run.throwAt = "match" THEN 8
    ELSE IF Len(GoodMatches(run.matches)) < 4 THEN 1
    ELSE IF run.throwAt = "fit" THEN 10
    ELSE IF run.fit = Empty THEN 1
    ELSE IF run.throwAt = "release" THEN 2
    ELSE 1

(* ------------------------- points and transforms --------------------- *)

\* the k-th point of the test polyline: (2,1), (4,2), (6,3), ...
PointAt(k) == [x |-> Num(2 * k), y |-> Num(k)]

\* the polyline the caller keeps, and its prefixes
TrackLine == [k \in 1..MaxLine |-> PointAt(k)]
TrackLines == {SubSeq(TrackLine, 1, n) : n \in 0..MaxLine}

\* getHomography(frameIndex): the cached entry or null
getHomography(m, frameIndex) ==
    IF frameIndex \in DOMAIN m THEN Some(m[frameIndex]) ELSE Null

\* applyHomography(point, H), lines 465-476
applyHomography(point, H) ==
    LET x == point.x
        y == point.y
        w == RAdd(RAdd(RMul(H[3][1], x), RMul(H[3][2], y)), H[3][3])
    IN  IF NearZero(w) THEN point
        ELSE [x |-> RDiv(RAdd(RAdd(RMul(H[1][1], x), RMul(H[1][2], y)), H[1][3]), w),
              y |-> RDiv(RAdd(RAdd(RMul(H[2][1], x), RMul(H[2][2], y)), H[2][3]), w)]

\* the 2x2 minor  a * d - b * c
Minor(a, d, b, c) == RSub(RMul(a, d), RMul(b, c))

\* invertHomography(H), lines 490-519: null when singular
invertHomography(M) ==
    LET H == Exact(M)
        det == Det(H)
    IN  IF NearZero(det) THEN Null
        ELSE LET invDet == RDiv(Num(1), det)
             IN  Some(<< <<RMul(invDet, Minor(H[2][2], H[3][3], H[2][3], H[3][2])),
                           RMul(invDet, Minor(H[1][3], H[3][2], H[1][2], H[3][3])),
                           RMul(invDet, Minor(H[1][2], H[2][3], H[1][3], H[2][2]))>>,
                         <<RMul(invDet, Minor(H[2][3], H[3][1], H[2][1], H[3][3])),
                           RMul(invDet, Minor(H[1][1], H[3][3], H[1][3], H[3][1])),
                           RMul(invDet, Minor(H[1][3], H[2][1], H[1][1], H[2][3]))>>,
                         <<RMul(invDet, Minor(H[2][1], H[3][2], H[2][2], H[3][1])),
                           RMul(invDet, Minor(H[1][2], H[3][1], H[1][1], H[3][2])),
                           RMul(invDet, Minor(H[1][1], H[2][2], H[1][2], H[2][1]))>> >>)

\* a transform that gives up on a singular matrix and skips the points whose
\* projective weight vanishes
transformTrackLineDropping(m, line, frameIndex) ==
    LET H == getHomography(m, frameIndex)
    IN  IF H = Null THEN line
        ELSE LET Hinv == invertHomography(H[1])
             IN  IF Hinv = Null THEN <<>>
                 ELSE LET moved == [k \in 1..Len(line) |->
                                        applyHomography(line[k], Hinv[1])]
                          kept == {k \in 1..Len(line) : moved[k] # line[k]}
                      IN  IF kept = 1..Len(line) THEN moved ELSE <<>>

\* transformTrackLine(trackLine, frameIndex), lines 439-447
transformTrackLine(m, line, frameIndex) ==
    LET H == getHomography(m, frameIndex)
    IN  IF H = Null THEN line
        ELSE LET Hinv == invertHomography(H[1])
             IN  IF Hinv = Null THEN line
                 ELSE [k \in 1..Len(line) |-> applyHomography(line[k], Hinv[1])]

(* ----------------------------- setReferenceFrame ---------------------- *)

\* steps of setReferenceFrame at which the backend may throw: "convert" is
\* lines 146-151 (before the new vectors are allocated), "detect" is
\* detectAndCompute at line 155 (after they were)
SetReferenceThrows == {NoThrow, "convert", "detect"}

\* the reference keypoints / descriptors after setReferenceFrame(_, imageData)
\* (they are always assigned together, lines 152-153)
setReferenceFrame(ready, old, imageData, throwAt) ==
    IF ~ready THEN old
    ELSE IF throwAt = "convert" THEN old
    ELSE IF throwAt = "detect" THEN Some(FreshEmpty)
    ELSE Some(Extracted(imageData))

\* how a setReferenceFrame call ended
SetReferencePath(ready, throwAt) ==
    IF ~ready THEN "not_ready" ELSE IF throwAt = NoThrow THEN "extracted" ELSE "exception"

(* -------------------- MotionTrackingService: inputs ------------------- *)

Max(a, b) == IF a > b THEN a ELSE b

\* Math.round: the nearest integer, a half rounded up
MathRound(a) == (2 * a[1] + a[2]) \div (2 * a[2])

\* the frames handed to the tracker are 40 x 30 pixels (frameGray.cols, .rows)
FrameSize == [cols |-> 40, rows |-> 30]

\* trackingSearchMultiplier = 2.0
trackingSearchMultiplier == 2
\* trackingConfidenceThreshold = 0.7, in hundredths like the correlation scores
trackingConfidenceThreshold == 70

\* the CarSelection marked with the box <<x, y, w, h>>: its center is the
\* middle of the box (car-selection.component.ts, lines 74-78)
Car(id, box) ==
    [id |-> id,
     center |-> [x |-> RAdd(Num(box[1]), Rat(box[3], 2)),
                 y |-> RAdd(Num(box[2]), Rat(box[4], 2))],
     bbox |-> <<Num(box[1]), Num(box[2]), Num(box[3]), Num(box[4])>>]

\* the box most objects are marked with: 10 x 10 pixels, inside the frame
OrdinaryBox == <<15, 10, 10, 10>>

\* boxes a user may mark: inside the frame, wholly left of it, wholly right
\* of it, and larger than the frame on every side
MarkedBoxes == {OrdinaryBox, <<-20, 10, 10, 10>>, <<40, 10, 10, 10>>, <<-1, -1, 42, 32>>}

\* boxes of the objects handed to updateTrackedPositions: inside the frame,
\* and right of it (its search window is cut by the border)
TrackedBoxes == {OrdinaryBox, <<40, 10, 10, 10>>}

\* the lists of up to n selections with the ids 1, 2, ... in this order (ids
\* are handed out by nextCarId++ and selections are appended), of which at
\* most one has a box from `boxes` that is not the ordinary one
SelectionsUpTo(n, boxes) ==
    {[k \in 1..len |-> Car(k, IF k = odd THEN box ELSE OrdinaryBox)] :
        len \in 0..n, odd \in 0..n, box \in boxes}

MarkedSelections == SelectionsUpTo(MaxCars, MarkedBoxes)
TrackedSelections == SelectionsUpTo(MaxCars, TrackedBoxes)

(* --------------- MotionTrackingService: templates --------------------- *)

\* the region of interest of a selection, lines 104-112
RoiRect(bbox) ==
    LET x == MathRound(bbox[1])
        y == MathRound(bbox[2])
        w == MathRound(bbox[3])
        h == MathRound(bbox[4])
    IN  [x |-> Max(0, x), y |-> Max(0, y),
         width |-> Min(w, FrameSize.cols - x), height |-> Min(h, FrameSize.rows - y)]

\* Mat.roi throws when the rectangle does not lie within the matrix
RoiThrows(rect) ==
    \/ rect.x + rect.width > FrameSize.cols
    \/ rect.y + rect.height > FrameSize.rows

\* frameGray.roi(roiRect).clone(): a buffer of its own holding the pixels of
\* the rectangle, identified here by the rectangle's corner in the base frame
Template(rect) ==
    [cols |-> rect.width, rows |-> rect.height, pixels |-> <<rect.x, rect.y>>,
     deleted |-> FALSE]

\* a clearTemplates that releases the buffers but keeps them in the map
clearTemplatesKeeping(m) ==
    [trackingTemplates |-> [i \in DOMAIN m |-> [m[i] EXCEPT !.deleted = TRUE]],
     released |-> Cardinality({i \in DOMAIN m : ~m[i].deleted}),
     twice |-> Cardinality({i \in DOMAIN m : m[i].deleted})]

\* clearTemplates(), lines 134-141: how many live buffers it released, and
\* how many it released although they were deleted already
clearTemplates(m) ==
    [trackingTemplates |-> EmptyMap,
     released |-> Cardinality({i \in DOMAIN m : ~m[i].deleted}),
     twice |-> Cardinality({i \in DOMAIN m : m[i].deleted})]

\* the loop of initializeTemplates, lines 103-124, from the k-th selection
\* on; st.live counts the buffers of this call that are not released:
\* frameMatRGBA, frameGray, and the header frameGray.roi() returns, which is
\* cloned and dropped
RECURSIVE InitLoop(_, _, _)
InitLoop(st, selections, k) ==
    IF k > Len(selections) THEN [st EXCEPT !.live = @ - 2]
    ELSE LET sel == selections[k]
             rect == RoiRect(sel.bbox)
         IN  IF rect.width <= 0 \/ rect.height <= 0
             THEN InitLoop([st EXCEPT !.skipped = @ \cup {sel.id}], selections, k + 1)
             ELSE IF RoiThrows(rect)
             THEN [st EXCEPT !.path = "exception"]
             ELSE InitLoop([st EXCEPT
                                !.trackingTemplates = MapSet(@, sel.id, Template(rect)),
                                !.lost = @ + (IF sel.id \in DOMAIN st.trackingTemplates
                                                    /\ ~st.trackingTemplates[sel.id].deleted
                                              THEN 1 ELSE 0),
                                !.live = @ + 1],
                           selections, k + 1)

\* initializeTemplates(frameData, selections), lines 91-132; throwAt is
\* "convert" when cv.matFromImageData throws
initializeTemplates(m, lost, loaded, selections, throwAt) ==
    LET cleared == clearTemplates(m)
        start == [trackingTemplates |-> cleared.trackingTemplates, lost |-> lost,
                  released |-> cleared.released, twice |-> cleared.twice,
                  live |-> 0, path |-> "done", skipped |-> {}, raised |-> FALSE]
    IN  IF ~loaded THEN [start EXCEPT !.path = "not_ready"]
        ELSE IF throwAt = "convert" THEN [start EXCEPT !.path = "convert_failed"]
        ELSE InitLoop([start EXCEPT !.live = 2], selections, 1)

(* --------------- MotionTrackingService: tracking ---------------------- *)

\* a search window that is not cut at the right and bottom border
SearchWindowUnclipped(sel) ==
    LET searchW == Min(MathRound(RMul(sel.bbox[3], Num(trackingSearchMultiplier))),
                       FrameSize.cols)
        searchH == Min(MathRound(RMul(sel.bbox[4], Num(trackingSearchMultiplier))),
                       FrameSize.rows)
        x0 == Max(0, MathRound(RSub(sel.center.x, Rat(searchW, 2))))
        y0 == Max(0, MathRound(RSub(sel.center.y, Rat(searchH, 2))))
    IN  [x0 |-> x0, y0 |-> y0, actualW |-> searchW, actualH |-> searchH]

\* the search window of a selection, lines 165-182
SearchWindow(sel) ==
    LET searchW == Min(MathRound(RMul(sel.bbox[3], Num(trackingSearchMultiplier))),
                       FrameSize.cols)
        searchH == Min(MathRound(RMul(sel.bbox[4], Num(trackingSearchMultiplier))),
                       FrameSize.rows)
        x0 == Max(0, MathRound(RSub(sel.center.x, Rat(searchW, 2))))
        y0 == Max(0, MathRound(RSub(sel.center.y, Rat(searchH, 2))))
        x1 == Min(FrameSize.cols, x0 + searchW)
        y1 == Min(FrameSize.rows, y0 + searchH)
    IN  [x0 |-> x0, y0 |-> y0, actualW |-> x1 - x0, actualH |-> y1 - y0]

\* the window is smaller than the template, line 184
WindowTooSmall(template, sel) ==
    \/ SearchWindow(sel).actualW < template.cols
    \/ SearchWindow(sel).actualH < template.rows

\* what the backend does while one object is searched: where it throws (if
\* at all: "roi" is frameGray.roi, "match" is cv.matchTemplate / cv.minMaxLoc),
\* the best score in hundredths and its location in the result matrix
ObjectRun(throwAt, score, maxLoc) == [throwAt |-> throwAt, score |-> score, maxLoc |-> maxLoc]

\* an object that is not searched
IdleObjectRun == ObjectRun(NoThrow, 0, <<0, 0>>)

\* the runs considered for a result matrix of the given size: the two
\* failures, a score just below the threshold at the origin of the result,
\* and one exactly on it at the far corner
ObjectRuns(resultCols, resultRows) ==
    {ObjectRun("roi", 0, <<0, 0>>),
     ObjectRun("match", 0, <<0, 0>>),
     ObjectRun(NoThrow, trackingConfidenceThreshold - 1, <<0, 0>>),
     ObjectRun(NoThrow, trackingConfidenceThreshold, <<resultCols - 1, resultRows - 1>>)}

\* a loop body that also rejects a score exactly on the threshold
TrackOneStrict(template, sel, run) ==
    LET win == SearchWindow(sel)
        newTopLeftX == win.x0 + run.maxLoc[1]
        newTopLeftY == win.y0 + run.maxLoc[2]
        step(path, out, thrown, live) ==
            [path |-> path, out |-> out, thrown |-> thrown, live |-> live]
    IN  IF win.actualW < template.cols \/ win.actualH < template.rows
        THEN step("window_small", sel, FALSE, 0)
        ELSE IF run.throwAt = "roi"
        THEN step("error", sel, TRUE, 0)
        ELSE IF run.throwAt = "match"
        THEN step("error", sel, TRUE, 2)
        ELSE IF run.score <= trackingConfidenceThreshold
        THEN step("low_confidence", sel, FALSE, 0)
        ELSE step("accepted",
                  [id |-> sel.id,
                   center |-> [x |-> RAdd(Num(newTopLeftX), Rat(template.cols, 2)),
                               y |-> RAdd(Num(newTopLeftY), Rat(template.rows, 2))],
                   bbox |-> <<Num(newTopLeftX), Num(newTopLeftY),
                              Num(template.cols), Num(template.rows)>>],
                  FALSE, 0)

\* a loop body that takes the corner of the best match for the new center
TrackOneCorner(template, sel, run) ==
    LET win == SearchWindow(sel)
        newTopLeftX == win.x0 + run.maxLoc[1]
        newTopLeftY == win.y0 + run.maxLoc[2]
        step(path, out, thrown, live) ==
            [path |-> path, out |-> out, thrown |-> thrown, live |-> live]
    IN  IF win.actualW < template.cols \/ win.actualH < template.rows
        THEN step("window_small", sel, FALSE, 0)
        ELSE IF run.throwAt = "roi"
        THEN step("error", sel, TRUE, 0)
        ELSE IF run.throwAt = "match"
        THEN step("error", sel, TRUE, 2)
        ELSE IF run.score < trackingConfidenceThreshold
        THEN step("low_confidence", sel, FALSE, 0)
        ELSE step("accepted",
                  [id |-> sel.id,
                   center |-> [x |-> Num(newTopLeftX), y |-> Num(newTopLeftY)],
                   bbox |-> <<Num(newTopLeftX), Num(newTopLeftY),
                              Num(template.cols), Num(template.rows)>>],
                  FALSE, 0)

\* a loop body that moves an object whose window is too small to the
\* origin of the frame
TrackOneClamping(template, sel, run) ==
    LET win == SearchWindow(sel)
        newTopLeftX == win.x0 + run.maxLoc[1]
        newTopLeftY == win.y0 + run.maxLoc[2]
        step(path, out, thrown, live) ==
            [path |-> path, out |-> out, thrown |-> thrown, live |-> live]
    IN  IF win.actualW < template.cols \/ win.actualH < template.rows
        THEN step("window_small", [sel EXCEPT !.center = [x |-> Num(0), y |-> Num(0)]], FALSE, 0)
        ELSE IF run.throwAt = "roi"
        THEN step("error", sel, TRUE, 0)
        ELSE IF run.throwAt = "match"
        THEN step("error", sel, TRUE, 2)
        ELSE IF run.score < trackingConfidenceThreshold
        THEN step("low_confidence", sel, FALSE, 0)
        ELSE step("accepted",
                  [id |-> sel.id,
                   center |-> [x |-> RAdd(Num(newTopLeftX), Rat(template.cols, 2)),
                               y |-> RAdd(Num(newTopLeftY), Rat(template.rows, 2))],
                   bbox |-> <<Num(newTopLeftX), Num(newTopLeftY),
                              Num(template.cols), Num(template.rows)>>],
                  FALSE, 0)

\* the body of the loop of updateTrackedPositions for a selection that has a
\* template, lines 165-230: the path taken, the object pushed, whether the
\* backend threw, and how many of searchMat / result were live when it did
TrackOne(template, sel, run) ==
    LET win == SearchWindow(sel)
        resultCols == win.actualW - template.cols + 1
        resultRows == win.actualH - template.rows + 1
        newTopLeftX == win.x0 + run.maxLoc[1]
        newTopLeftY == win.y0 + run.maxLoc[2]
        step(path, out, thrown, live) ==
            [path |-> path, out |-> out, thrown |-> thrown, live |-> live]
    IN  IF win.actualW < template.cols \/ win.actualH < template.rows
        THEN step("window_small", sel, FALSE, 0)
        ELSE IF run.throwAt = "roi"
        THEN step("error", sel, TRUE, 0)
        ELSE IF resultCols <= 0 \/ resultRows <= 0
        THEN step("result_empty", sel, FALSE, 0)
        ELSE IF run.throwAt = "match"
        THEN step("error", sel, TRUE, 2)
        ELSE IF run.score < trackingConfidenceThreshold
        THEN step("low_confidence", sel, FALSE, 0)
        ELSE step("accepted",
                  [id |-> sel.id,
                   center |-> [x |-> RAdd(Num(newTopLeftX), Rat(template.cols, 2)),
                               y |-> RAdd(Num(newTopLeftY), Rat(template.rows, 2))],
                   bbox |-> <<Num(newTopLeftX), Num(newTopLeftY),
                              Num(template.cols), Num(template.rows)>>],
                  FALSE, 0)

\* what updateTrackedPositions hands back: the list returned, the path of
\* every object reached, the buffers of the call still live (frameMatRGBA
\* and frameGray among them), and whether it left through the catch block
Tracked(updated, paths, live, caught) ==
    [updated |-> updated, paths |-> paths, live |-> live, caught |-> caught, raised |-> FALSE]

\* the loop of updateTrackedPositions, lines 158-236, from the k-th selection on
RECURSIVE UpdateLoop(_, _, _, _, _, _)
UpdateLoop(m, selections, runs, k, updated, paths) ==
    IF k > Len(selections) THEN Tracked(updated, paths, 0, FALSE)
    ELSE LET sel == selections[k]
         IN  IF sel.id \notin DOMAIN m
             THEN UpdateLoop(m, selections, runs, k + 1, Append(updated, sel),
                             Append(paths, "no_template"))
             ELSE LET r == TrackOne(m[sel.id], sel, runs[k])
                  IN  IF r.thrown
                      THEN Tracked(selections, Append(paths, r.path), 2 + r.live, TRUE)
                      ELSE UpdateLoop(m, selections, runs, k + 1, Append(updated, r.out),
                                      Append(paths, r.path))

\* an updateTrackedPositions that leaves out the objects it holds no template for
updateTrackedPositionsDropping(m, selections, run) ==
    LET kept == SelectSeq(selections, LAMBDA sel : sel.id \in DOMAIN m)
    IN  IF DOMAIN m = {} THEN Tracked(selections, <<>>, 0, FALSE)
        ELSE IF run.throwAt = "convert" THEN Tracked(selections, <<>>, 0, TRUE)
        ELSE UpdateLoop(m, kept, [k \in 1..Len(kept) |-> run.objects[1]], 1, <<>>, <<>>)

\* an updateTrackedPositions without its try / catch
updateTrackedPositionsUnguarded(m, selections, run) ==
    IF DOMAIN m = {} THEN Tracked(selections, <<>>, 0, FALSE)
    ELSE IF run.throwAt = "convert"
    THEN [Tracked(selections, <<>>, 0, FALSE) EXCEPT !.raised = TRUE]
    ELSE LET r == UpdateLoop(m, selections, run.objects, 1, <<>>, <<>>)
         IN  [r EXCEPT !.raised = r.caught, !.caught = FALSE]

\* updateTrackedPositions(frameData, selections), lines 143-241, on the
\* templates m; run.throwAt is "convert" when cv.matFromImageData throws and
\* run.objects holds one ObjectRun per selection
updateTrackedPositions(m, selections, run) ==
    IF DOMAIN m = {} THEN Tracked(selections, <<>>, 0, FALSE)
    ELSE IF run.throwAt = "convert" THEN Tracked(selections, <<>>, 0, TRUE)
    ELSE UpdateLoop(m, selections, run.objects, 1, <<>>, <<>>)

\* whether updateTrackedPositions returns the very array it was given (lines
\* 147-149 and 237-240) rather than the array it built (line 236)
ReturnsGiven(m, selections, run) ==
    DOMAIN m = {} \/ updateTrackedPositions(m, selections, run).caught

\* the runs an object can meet: none but the idle one unless it is searched
ObjectRunsFor(m, sel) ==
    IF sel.id \notin DOMAIN m \/ WindowTooSmall(m[sel.id], sel) THEN {IdleObjectRun}
    ELSE ObjectRuns(SearchWindow(sel).actualW - m[sel.id].cols + 1,
                    SearchWindow(sel).actualH - m[sel.id].rows + 1)

\* one ObjectRun for each of the first k selections; the objects after one
\* on which the backend threw are not searched (the catch block ends the loop)
RECURSIVE ObjectRunSeqs(_, _, _)
ObjectRunSeqs(m, selections, k) ==
    IF k = 0 THEN {<<>>}
    ELSE LET Following(runs) ==
                IF \E j \in DOMAIN runs : runs[j].throwAt # NoThrow
                THEN {IdleObjectRun}
                ELSE ObjectRunsFor(m, selections[k])
         IN  UNION {{Append(runs, r) : r \in Following(runs)} :
                        runs \in ObjectRunSeqs(m, selections, k - 1)}

\* the backend runs updateTrackedPositions(_, selections) can meet on the templates m
TrackerRuns(m, selections) ==
    LET idle == [k \in 1..Len(selections) |-> IdleObjectRun]
    IN  IF DOMAIN m = {} THEN {[throwAt |-> NoThrow, objects |-> idle]}
        ELSE {[throwAt |-> "convert", objects |-> idle]}
             \cup {[throwAt |-> NoThrow, objects |-> runs] :
                        runs \in ObjectRunSeqs(m, selections, Len(selections))}

\* no call of the tracker yet.  selections is the list a call was given,
\* updated the list updateTrackedPositions returned, paths the path of every
\* object it reached; held counts the templates in the map when the call
\* began, released / twice the buffers it released once / once more, live
\* the buffers it allocated and left unreleased, skipped the ids
\* initializeTemplates skipped, same whether updateTrackedPositions returned
\* the very array it was given
NoTrackerCall ==
    [op |-> "constructor", selections |-> <<>>, updated |-> <<>>, paths |-> <<>>, path |-> "",
     held |-> 0, released |-> 0, twice |-> 0, live |-> 0, skipped |-> {},
     caught |-> FALSE, raised |-> FALSE, same |-> FALSE]

\* no call of the loop yet.  wasRunning tells whether a handle was held when
\* start() was called, stopped whether stop() has cancelled a loop before
NoLoopCall == [op |-> "constructor", wasRunning |-> FALSE, stopped |-> FALSE]

\* no updateAndRender yet.  played: the video was playing; captured:
\* captureFrame returned a frame; wrote: manualSelections.set was called;
\* estimated: computeHomography was called; transformed: renderPolyline
\* called transformTrackLine; found: the cache then held an entry for
\* currentFrameIndex
NoTick == [played |-> FALSE, captured |-> FALSE, wrote |-> FALSE, estimated |-> FALSE,
           transformed |-> FALSE, found |-> FALSE]

\* CarSelectionComponent as constructed (car-selection.component.ts, lines
\* 46-52); segmentationOverlays holds the keys of the map
NoCarSelection ==
    [manualSelections |-> <<>>, segmentationInProgress |-> FALSE, segmentationError |-> Null,
     segmentationOverlays |-> {}, nextCarId |-> 1]

\* no run started, the model not loaded, nothing published
NoSegmentation == [loaded |-> FALSE, runs |-> <<>>, published |-> Null]

(* -------------------------------- actions ----------------------------- *)

Init ==
    /\ homographies = EmptyMap
    /\ referenceFrameIndex = Null
    /\ referenceFrameImage = Null
    /\ referenceKeypoints = Null
    /\ referenceDescriptors = Null
    /\ currentFrameIndex = 0
    /\ cvReady \in BOOLEAN
    /\ call = NoCall
    /\ lastSetReference = ""
    /\ lastFit = Null
    /\ cvLoaded = cvReady
    /\ trackingTemplates = EmptyMap
    /\ lostTemplates = 0
    /\ tcall = NoTrackerCall
    /\ animationFrameId = Null
    /\ pendingFrames = {}
    /\ rendering = "idle"
    /\ paused = TRUE
    /\ mode = "normal"
    /\ debugMode = FALSE
    /\ manualSelections = <<>>
    /\ loopCall = NoLoopCall
    /\ tick = NoTick
    /\ trackLine = <<>>
    /\ startIndex = Null
    /\ nextCarId = 1
    /\ carSelection = NoCarSelection
    /\ segmentation = NoSegmentation

\* the program's own state; lastSetReference and lastFit are history
\* variables, which only the actions of SpecHistory update
service == <<homographies, referenceFrameIndex, referenceFrameImage, referenceKeypoints,
             referenceDescriptors, currentFrameIndex, cvReady>>
history == <<lastSetReference, lastFit>>

\* waitForOpenCV: the script has loaded and the poll finds cv.Mat
WaitForOpenCV ==
    /\ ~cvReady
    /\ cvReady' = TRUE
    /\ cvLoaded' = TRUE
    /\ UNCHANGED <<homographies, referenceFrameIndex, referenceFrameImage, referenceKeypoints,
                   referenceDescriptors, currentFrameIndex, call, history>>
    /\ UNCHANGED <<trackingTemplates, lostTemplates, tcall, viewer>>

\* one call setReferenceFrame(frameIndex, imageData), lines 135-173
SetReferenceFrameCall(frameIndex, imageData, throwAt) ==
    /\ referenceFrameIndex' = Some(frameIndex)
    /\ referenceFrameImage' = Some(imageData)
    /\ referenceKeypoints' = setReferenceFrame(cvReady, referenceKeypoints, imageData, throwAt)
    /\ referenceDescriptors' = setReferenceFrame(cvReady, referenceDescriptors, imageData, throwAt)
    /\ call' = [NoCall EXCEPT !.op = "setReferenceFrame",
                              !.path = SetReferencePath(cvReady, throwAt)]
    /\ UNCHANGED <<homographies, currentFrameIndex, cvReady, tracker, viewer>>

\* the steps at which setReferenceFrame may throw in the current state
SetReferenceThrowsNow == IF cvReady THEN SetReferenceThrows ELSE {NoThrow}

\* a setReferenceFrame that also empties the cache
SetReferenceFrameClearing ==
    \E frameIndex \in Frames, imageData \in Images, throwAt \in SetReferenceThrowsNow :
        /\ referenceFrameIndex' = Some(frameIndex)
        /\ referenceFrameImage' = Some(imageData)
        /\ referenceKeypoints' = setReferenceFrame(cvReady, referenceKeypoints, imageData, throwAt)
        /\ referenceDescriptors' = setReferenceFrame(cvReady, referenceDescriptors, imageData, throwAt)
        /\ call' = [NoCall EXCEPT !.op = "setReferenceFrame",
                                  !.path = SetReferencePath(cvReady, throwAt)]
        /\ homographies' = EmptyMap
        /\ UNCHANGED <<currentFrameIndex, cvReady, history, tracker, viewer>>

SetReferenceFrame ==
    \E frameIndex \in Frames, imageData \in Images, throwAt \in SetReferenceThrowsNow :
        /\ SetReferenceFrameCall(frameIndex, imageData, throwAt)
        /\ UNCHANGED history

\* the backend runs computeHomography(frameIndex, currentImage) can meet in
\* the current state
BackendRunsNow(frameIndex, currentImage) ==
    IF Some(frameIndex) = referenceFrameIndex \/ ~cvReady \/ referenceDescriptors = Null
        \/ Len(referenceDescriptors[1]) = 0
    THEN {IdleRun}
    ELSE BackendRuns(currentImage, Len(referenceDescriptors[1]))

\* the branches of computeHomography that end in getLastValidHomography
FallbackPaths == {"few_keypoints", "few_matches", "empty_fit", "exception"}

\* what a call records of its branch: every fallback branch counts as one
PathKind(path) == IF path \in FallbackPaths THEN "fallback" ELSE path

\* the outcome of computeHomography(frameIndex, currentImage) in the current state
ComputeNow(frameIndex, currentImage, run) ==
    computeHomography(homographies, referenceFrameIndex, cvReady, referenceDescriptors,
                      frameIndex, currentImage, run)

\* one call computeHomography(frameIndex, currentImage), lines 212-363
ComputeHomographyCall(frameIndex, currentImage, run) ==
    LET r == ComputeNow(frameIndex, currentImage, run)
    IN  /\ homographies' = r.homographies
        /\ call' = [NoCall EXCEPT !.op = "computeHomography", !.frameIndex = Some(frameIndex),
                                  !.path = PathKind(r.path), !.result = Some(r.result)]
        /\ UNCHANGED <<referenceFrameIndex, referenceFrameImage, referenceKeypoints,
                       referenceDescriptors, currentFrameIndex, cvReady, tracker, viewer>>

ComputeHomography ==
    \E frameIndex \in Frames, currentImage \in Images :
        \E run \in BackendRunsNow(frameIndex, currentImage) :
            /\ ComputeHomographyCall(frameIndex, currentImage, run)
            /\ UNCHANGED history

\* transformTrackLine(trackLine, frameIndex), lines 439-447, on the caller's line
TransformTrackLine ==
    \E frameIndex \in Frames :
        /\ call' = [NoCall EXCEPT !.op = "transformTrackLine", !.frameIndex = Some(frameIndex),
                                  !.out = transformTrackLine(homographies, TrackLine, frameIndex)]
        /\ UNCHANGED <<service, history, tracker, viewer>>

\* one call clear(), lines 524-529
ClearCall ==
    /\ homographies' = EmptyMap
    /\ referenceFrameIndex' = Null
    /\ referenceFrameImage' = Null
    /\ currentFrameIndex' = 0
    /\ call' = [NoCall EXCEPT !.op = "clear"]
    /\ UNCHANGED <<referenceKeypoints, referenceDescriptors, cvReady, tracker, viewer>>

Clear == ClearCall /\ UNCHANGED history

Next ==
    \/ WaitForOpenCV
    \/ SetReferenceFrame
    \/ ComputeHomography
    \/ TransformTrackLine
    \/ Clear

Spec == Init /\ [][Next]_vars

(* ------------------- the same calls, with their history ---------------- *)

\* setReferenceFrame, remembering how the extraction ended
SetReferenceFrameRecorded ==
    \E frameIndex \in Frames, imageData \in Images, throwAt \in SetReferenceThrowsNow :
        /\ SetReferenceFrameCall(frameIndex, imageData, throwAt)
        /\ lastSetReference' = SetReferencePath(cvReady, throwAt)
        /\ UNCHANGED lastFit

\* computeHomography, remembering the matrix of a successful fit
ComputeHomographyRecorded ==
    \E frameIndex \in Frames, currentImage \in Images :
        \E run \in BackendRunsNow(frameIndex, currentImage) :
            /\ ComputeHomographyCall(frameIndex, currentImage, run)
            /\ lastFit' = IF ComputeNow(frameIndex, currentImage, run).path = "fitted"
                          THEN Some(ComputeNow(frameIndex, currentImage, run).result)
                          ELSE lastFit
            /\ UNCHANGED lastSetReference

\* clear(), after which no fit is remembered
ClearRecorded ==
    /\ ClearCall
    /\ lastFit' = Null
    /\ UNCHANGED lastSetReference

NextHistory ==
    \/ WaitForOpenCV
    \/ SetReferenceFrameRecorded
    \/ ComputeHomographyRecorded
    \/ ClearRecorded

SpecHistory == Init /\ [][NextHistory]_vars

(* ------------------------ the tracker's calls -------------------------- *)

\* the script that defines the global cv finishes loading
LoadOpenCV ==
    /\ ~cvLoaded
    /\ cvLoaded' = TRUE
    /\ UNCHANGED <<trackingTemplates, lostTemplates, tcall, service, call, history, viewer>>

\* initializeTemplates(frameData, selections), lines 91-132
InitializeTemplates ==
    \E selections \in MarkedSelections, throwAt \in {NoThrow, "convert"} :
        LET r == initializeTemplates(trackingTemplates, lostTemplates, cvLoaded,
                                     selections, throwAt)
        IN  /\ cvLoaded \/ throwAt = NoThrow
            /\ trackingTemplates' = r.trackingTemplates
            /\ lostTemplates' = r.lost
            /\ tcall' = [NoTrackerCall EXCEPT
                            !.op = "initializeTemplates", !.selections = selections,
                            !.path = r.path, !.held = Cardinality(DOMAIN trackingTemplates),
                            !.released = r.released, !.twice = r.twice, !.live = r.live,
                            !.skipped = r.skipped, !.raised = r.raised]
            /\ UNCHANGED <<cvLoaded, service, call, history, viewer>>

\* the lists a caller hands to updateTrackedPositions: a list just marked,
\* or the list the previous call returned (part_008, lines 583-590)
TrackedSelectionsNow ==
    TrackedSelections
        \cup (IF tcall.op = "updateTrackedPositions" /\ Len(tcall.updated) <= MaxFollowed
              THEN {tcall.updated} ELSE {})

\* an updateTrackedPositions that re-learns the template of every object it
\* is given from the place where that object was last seen
UpdateTrackedPositionsRelearning ==
    \E selections \in TrackedSelectionsNow :
        \E run \in TrackerRuns(trackingTemplates, selections) :
            LET r == updateTrackedPositions(trackingTemplates, selections, run)
            IN  /\ trackingTemplates' =
                        [i \in DOMAIN trackingTemplates |->
                            IF \E k \in DOMAIN r.updated : r.updated[k].id = i
                            THEN [trackingTemplates[i] EXCEPT !.pixels = <<0, 0>>]
                            ELSE trackingTemplates[i]]
                /\ tcall' = [NoTrackerCall EXCEPT
                                !.op = "updateTrackedPositions", !.selections = selections,
                                !.updated = r.updated, !.paths = r.paths, !.live = r.live,
                                !.caught = r.caught, !.raised = r.raised,
                                !.held = Cardinality(DOMAIN trackingTemplates),
                                !.same = ReturnsGiven(trackingTemplates, selections, run)]
                /\ UNCHANGED <<cvLoaded, lostTemplates, service, call, history, viewer>>

\* updateTrackedPositions(frameData, selections), lines 143-241
UpdateTrackedPositions ==
    \E selections \in TrackedSelectionsNow :
        \E run \in TrackerRuns(trackingTemplates, selections) :
            LET r == updateTrackedPositions(trackingTemplates, selections, run)
            IN  /\ tcall' = [NoTrackerCall EXCEPT
                                !.op = "updateTrackedPositions", !.selections = selections,
                                !.updated = r.updated, !.paths = r.paths, !.live = r.live,
                                !.caught = r.caught, !.raised = r.raised,
                                !.held = Cardinality(DOMAIN trackingTemplates),
                                !.same = ReturnsGiven(trackingTemplates, selections, run)]
                /\ UNCHANGED <<cvLoaded, trackingTemplates, lostTemplates, service, call,
                               history, viewer>>

\* clearTemplates(), lines 134-141
ClearTemplates ==
    LET r == clearTemplates(trackingTemplates)
    IN  /\ trackingTemplates' = r.trackingTemplates
        /\ tcall' = [NoTrackerCall EXCEPT
                        !.op = "clearTemplates", !.held = Cardinality(DOMAIN trackingTemplates),
                        !.released = r.released, !.twice = r.twice]
        /\ UNCHANGED <<cvLoaded, lostTemplates, service, call, history, viewer>>

NextTracker ==
    \/ LoadOpenCV
    \/ InitializeTemplates
    \/ UpdateTrackedPositions
    \/ ClearTemplates

SpecTracker == Init /\ [][NextTracker]_vars

(* ----------------------------- the render loop ------------------------- *)

\* ViewMode
ViewModes == {"normal", "mapping", "start-finish", "locked", "marking-cars"}

\* requestAnimationFrame(render): the browser queues the callback and returns
\* a handle that no queued callback has
requestAnimationFrame(pending) ==
    LET id == CHOOSE i \in 1..(Cardinality(pending) + 1) :
                    /\ i \notin pending
                    /\ \A j \in 1..(i - 1) : j \in pending
    IN  [id |-> id, pending |-> pending \cup {id}]

\* cancelAnimationFrame(id)
cancelAnimationFrame(pending, id) == pending \ {id}

\* a start() that does not look at animationFrameId
StartAgain ==
    /\ rendering = "idle"
    /\ LET r == requestAnimationFrame(pendingFrames)
       IN  /\ animationFrameId' = Some(r.id)
           /\ pendingFrames' = r.pending
    /\ loopCall' = [loopCall EXCEPT !.op = "start", !.wasRunning = animationFrameId # Null]
    /\ UNCHANGED <<rendering, paused, mode, debugMode, manualSelections, tick,
                   service, call, history, tracker, editor, cars>>

\* start(video, canvas), lines 551-563; no callback is running when it is
\* called, because a callback runs to its end before any other code
Start ==
    /\ rendering = "idle"
    /\ IF animationFrameId # Null
       THEN UNCHANGED <<animationFrameId, pendingFrames>>
       ELSE LET r == requestAnimationFrame(pendingFrames)
            IN  /\ animationFrameId' = Some(r.id)
                /\ pendingFrames' = r.pending
    /\ loopCall' = [loopCall EXCEPT !.op = "start", !.wasRunning = animationFrameId # Null]
    /\ UNCHANGED <<rendering, paused, mode, debugMode, manualSelections, tick,
                   service, call, history, tracker, editor, cars>>

\* a stop() that forgets the handle without cancelling the callback
StopForgetting ==
    /\ rendering = "idle"
    /\ animationFrameId' = Null
    /\ loopCall' = [op |-> "stop", wasRunning |-> animationFrameId # Null,
                    stopped |-> loopCall.stopped \/ animationFrameId # Null]
    /\ UNCHANGED <<pendingFrames, rendering, paused, mode, debugMode, manualSelections, tick,
                   service, call, history, tracker, editor, cars>>

\* stop(), lines 565-570
Stop ==
    /\ rendering = "idle"
    /\ pendingFrames' = IF animationFrameId # Null
                        THEN cancelAnimationFrame(pendingFrames, animationFrameId[1])
                        ELSE pendingFrames
    /\ animationFrameId' = Null
    /\ loopCall' = [op |-> "stop", wasRunning |-> animationFrameId # Null,
                    stopped |-> loopCall.stopped \/ animationFrameId # Null]
    /\ UNCHANGED <<rendering, paused, mode, debugMode, manualSelections, tick,
                   service, call, history, tracker, editor, cars>>

\* updateAndRender(video, canvas), lines 572-595, with renderPolyline, lines
\* 597-621: frameIndex is Math.floor(video.currentTime * fps), captured tells
\* whether captureFrame returned a frame
updateAndRender ==
    IF paused
    THEN /\ tick' = NoTick
         /\ UNCHANGED <<currentFrameIndex, manualSelections, tcall>>
    ELSE \E frameIndex \in Frames, captured \in BOOLEAN :
            /\ currentFrameIndex' = frameIndex
            /\ IF captured
               THEN \E run \in TrackerRuns(trackingTemplates, manualSelections) :
                        LET r == updateTrackedPositions(trackingTemplates, manualSelections, run)
                            same == ReturnsGiven(trackingTemplates, manualSelections, run)
                        IN  /\ manualSelections' = IF same THEN manualSelections ELSE r.updated
                            /\ tcall' = [NoTrackerCall EXCEPT
                                            !.op = "updateTrackedPositions",
                                            !.selections = manualSelections,
                                            !.updated = r.updated, !.paths = r.paths,
                                            !.live = r.live, !.caught = r.caught,
                                            !.raised = r.raised,
                                            !.held = Cardinality(DOMAIN trackingTemplates),
                                            !.same = same]
                            /\ tick' = [played |-> TRUE, captured |-> TRUE, wrote |-> ~same,
                                        estimated |-> FALSE,
                                        transformed |-> mode = "locked" /\ debugMode,
                                        found |-> mode = "locked" /\ debugMode
                                                    /\ frameIndex \in DOMAIN homographies]
               ELSE /\ tick' = [played |-> TRUE, captured |-> FALSE, wrote |-> FALSE,
                                estimated |-> FALSE,
                                transformed |-> mode = "locked" /\ debugMode,
                                found |-> mode = "locked" /\ debugMode
                                            /\ frameIndex \in DOMAIN homographies]
                    /\ UNCHANGED <<manualSelections, tcall>>

\* the browser runs a queued callback: render, line 557
RenderFrame ==
    /\ rendering = "idle"
    /\ \E id \in pendingFrames : pendingFrames' = pendingFrames \ {id}
    /\ rendering' = "request"
    /\ loopCall' = [loopCall EXCEPT !.op = "render", !.wasRunning = animationFrameId # Null]
    /\ updateAndRender
    /\ UNCHANGED <<animationFrameId, paused, mode, debugMode>>
    /\ UNCHANGED <<homographies, referenceFrameIndex, referenceFrameImage, referenceKeypoints,
                   referenceDescriptors, cvReady, call, history>>
    /\ UNCHANGED <<cvLoaded, trackingTemplates, lostTemplates, editor, cars>>

\* the callback asks for the next one, line 559
RequestNextFrame ==
    /\ rendering = "request"
    /\ LET r == requestAnimationFrame(pendingFrames)
       IN  /\ animationFrameId' = Some(r.id)
           /\ pendingFrames' = r.pending
    /\ rendering' = "idle"
    /\ UNCHANGED <<paused, mode, debugMode, manualSelections, loopCall, tick,
                   service, call, history, tracker, editor, cars>>

\* the video starts or resumes playing
PlayVideo ==
    /\ rendering = "idle"
    /\ paused
    /\ paused' = FALSE
    /\ UNCHANGED <<animationFrameId, pendingFrames, rendering, mode, debugMode,
                   manualSelections, loopCall, tick, service, call, history, tracker, editor, cars>>

\* the video is paused or reaches its end
PauseVideo ==
    /\ rendering = "idle"
    /\ ~paused
    /\ paused' = TRUE
    /\ UNCHANGED <<animationFrameId, pendingFrames, rendering, mode, debugMode,
                   manualSelections, loopCall, tick, service, call, history, tracker, editor, cars>>

\* a component sets the mode signal of RaceStateService
SetMode ==
    /\ rendering = "idle"
    /\ \E m \in ViewModes \ {mode} : mode' = m
    /\ UNCHANGED <<animationFrameId, pendingFrames, rendering, paused, debugMode,
                   manualSelections, loopCall, tick, service, call, history, tracker, editor, cars>>

\* the debug checkbox sets the debugMode signal of HomographyService
ToggleDebugMode ==
    /\ rendering = "idle"
    /\ debugMode' = ~debugMode
    /\ UNCHANGED <<animationFrameId, pendingFrames, rendering, paused, mode,
                   manualSelections, loopCall, tick, service, call, history, tracker, editor, cars>>

NextLoop ==
    \/ Start
    \/ Stop
    \/ RenderFrame
    \/ RequestNextFrame
    \/ PlayVideo
    \/ PauseVideo
    \/ SetMode
    \/ ToggleDebugMode

SpecLoop == Init /\ [][NextLoop]_vars

(* ------------------------------ track mapping ------------------------- *)

\* the side of the box a click marks a car with, line 275
boxSize == 60

\* the places a click on the canvas can land, in video coordinates
ClickPoints == {<<10, 10>>, <<50, 20>>}

\* findNearestPointIndex(pos), lines 318-336: null for an empty line, else
\* the first index, counted from 0, of a point at the least distance
findNearestPointIndex(line, pos) ==
    LET Dist2(k) == (line[k][1] - pos[1]) * (line[k][1] - pos[1])
                        + (line[k][2] - pos[2]) * (line[k][2] - pos[2])
    IN  IF Len(line) = 0 THEN Null
        ELSE Some((CHOOSE k \in 1..Len(line) :
                        /\ \A j \in 1..Len(line) : Dist2(k) <= Dist2(j)
                        /\ \A j \in 1..(k - 1) : Dist2(j) > Dist2(k)) - 1)

\* findSelectionAtPoint(point), lines 295-315: the first selection whose box
\* holds the point, or null
findSelectionAtPoint(selections, pos) ==
    LET Holds(sel) == /\ RLe(sel.bbox[1], Num(pos[1]))
                      /\ RLe(Num(pos[1]), RAdd(sel.bbox[1], sel.bbox[3]))
                      /\ RLe(sel.bbox[2], Num(pos[2]))
                      /\ RLe(Num(pos[2]), RAdd(sel.bbox[2], sel.bbox[4]))
        hits == {k \in 1..Len(selections) : Holds(selections[k])}
    IN  IF hits = {} THEN Null
        ELSE Some(selections[CHOOSE k \in hits : \A j \in hits : k <= j])

\* onSelectTrackLine(), lines 164-169
OnSelectTrackLine ==
    /\ rendering = "idle"
    /\ mode' = "mapping"
    /\ trackLine' = <<>>
    /\ startIndex' = Null
    /\ paused' = TRUE
    /\ UNCHANGED <<animationFrameId, pendingFrames, rendering, debugMode, manualSelections,
                   loopCall, tick, nextCarId, service, call, history, tracker, cars>>

\* onCanvasClick(event), lines 243-292, with both elements present
OnCanvasClick ==
    /\ rendering = "idle"
    /\ \E pos \in ClickPoints :
        IF mode = "mapping"
        THEN /\ Len(trackLine) < MaxPoints
             /\ trackLine' = Append(trackLine, pos)
             /\ UNCHANGED <<startIndex, manualSelections, nextCarId>>
        ELSE IF mode = "start-finish"
        THEN /\ startIndex' = IF findNearestPointIndex(trackLine, pos) # Null
                              THEN findNearestPointIndex(trackLine, pos)
                              ELSE startIndex
             /\ UNCHANGED <<trackLine, manualSelections, nextCarId>>
        ELSE IF mode = "marking-cars"
        THEN LET clicked == findSelectionAtPoint(manualSelections, pos)
             IN  IF clicked # Null
                 THEN /\ manualSelections' =
                            SelectSeq(manualSelections, LAMBDA s : s.id # clicked[1].id)
                      /\ UNCHANGED <<trackLine, startIndex, nextCarId>>
                 ELSE /\ nextCarId <= MaxCars
                      /\ manualSelections' =
                            Append(manualSelections,
                                   Car(nextCarId, <<pos[1] - boxSize \div 2,
                                                    pos[2] - boxSize \div 2, boxSize, boxSize>>))
                      /\ nextCarId' = nextCarId + 1
                      /\ UNCHANGED <<trackLine, startIndex>>
        ELSE UNCHANGED <<trackLine, startIndex, manualSelections, nextCarId>>
    /\ UNCHANGED <<animationFrameId, pendingFrames, rendering, paused, mode, debugMode,
                   loopCall, tick, service, call, history, tracker, cars>>

\* onUndo(), lines 171-176
OnUndo ==
    /\ rendering = "idle"
    /\ trackLine' = IF Len(trackLine) > 0 THEN SubSeq(trackLine, 1, Len(trackLine) - 1)
                    ELSE trackLine
    /\ UNCHANGED <<startIndex, nextCarId, loop, service, call, history, tracker, cars>>

\* onReset(), lines 178-181
OnReset ==
    /\ rendering = "idle"
    /\ trackLine' = <<>>
    /\ startIndex' = Null
    /\ UNCHANGED <<nextCarId, loop, service, call, history, tracker, cars>>

\* canFinishMapping, line 67
canFinishMapping == Len(trackLine) > 4

\* onFinish(), lines 183-187
OnFinish ==
    /\ rendering = "idle"
    /\ mode' = IF canFinishMapping THEN "start-finish" ELSE mode
    /\ UNCHANGED <<animationFrameId, pendingFrames, rendering, paused, debugMode,
                   manualSelections, loopCall, tick, editor, service, call, history, tracker, cars>>

\* onConfirmStartFinish(), lines 189-202: captured tells whether
\* captureFrameData returned a frame; frame 0 is made the reference frame and
\* its homography is computed, which takes the reference shortcut
OnConfirmStartFinish ==
    /\ rendering = "idle"
    /\ IF startIndex = Null
       THEN UNCHANGED <<mode, paused, service, call>>
       ELSE /\ \E captured \in BOOLEAN, imageData \in Images, throwAt \in SetReferenceThrowsNow :
                IF captured
                THEN LET descriptors == setReferenceFrame(cvReady, referenceDescriptors,
                                                          imageData, throwAt)
                         r == computeHomography(homographies, Some(0), cvReady, descriptors,
                                                0, imageData, IdleRun)
                     IN  /\ referenceFrameIndex' = Some(0)
                         /\ referenceFrameImage' = Some(imageData)
                         /\ referenceKeypoints' = setReferenceFrame(cvReady, referenceKeypoints,
                                                                    imageData, throwAt)
                         /\ referenceDescriptors' = descriptors
                         /\ homographies' = r.homographies
                         /\ call' = [NoCall EXCEPT !.op = "computeHomography",
                                                   !.frameIndex = Some(0),
                                                   !.path = PathKind(r.path),
                                                   !.result = Some(r.result)]
                         /\ UNCHANGED <<currentFrameIndex, cvReady>>
                ELSE UNCHANGED <<service, call>>
            /\ mode' = "locked"
            /\ paused' = FALSE
    /\ UNCHANGED <<animationFrameId, pendingFrames, rendering, debugMode, manualSelections,
                   loopCall, tick, editor, history, tracker, cars>>

NextEditor ==
    \/ OnSelectTrackLine
    \/ OnCanvasClick
    \/ OnUndo
    \/ OnReset
    \/ OnFinish
    \/ OnConfirmStartFinish

SpecEditor == Init /\ [][NextEditor]_vars

(* ------------------------------ car selection ------------------------ *)

\* DEFAULT_CAR_BOX_SIZE, line 52
DEFAULT_CAR_BOX_SIZE == 60

\* a run of runSegmentationForSelections that awaits a promise: selections is
\* the list it read when it began, at the index of the selection whose
\* runSegmentation it awaits (0 while it awaits loadModel), overlays the keys
\* of its local map; cancelled tells whether onCancelCarMarking was called
\* since it began
SegmentationRun(selections, at) ==
    [selections |-> selections, at |-> at, overlays |-> {}, cancelled |-> FALSE]

\* clearSegmentationResults(), lines 135-140
clearSegmentationResults(c) ==
    [c EXCEPT !.segmentationOverlays = {}, !.segmentationError = Null,
              !.segmentationInProgress = FALSE]

\* handleCanvasClick(point), lines 58-86; the component is active while the
\* mode is 'marking-cars'
HandleCanvasClick ==
    /\ mode = "marking-cars"
    /\ \E pos \in ClickPoints :
        LET clicked == findSelectionAtPoint(carSelection.manualSelections, pos)
            half == DEFAULT_CAR_BOX_SIZE \div 2
        IN  IF clicked # Null
            THEN carSelection' =
                    [carSelection EXCEPT !.manualSelections =
                        SelectSeq(@, LAMBDA sel : sel.id # clicked[1].id)]
            ELSE /\ carSelection.nextCarId <= MaxCars
                 /\ carSelection' =
                        [carSelection EXCEPT
                            !.manualSelections =
                                Append(@, Car(carSelection.nextCarId,
                                              <<pos[1] - half, pos[2] - half,
                                                DEFAULT_CAR_BOX_SIZE, DEFAULT_CAR_BOX_SIZE>>)),
                            !.nextCarId = @ + 1]
    /\ UNCHANGED <<segmentation, loop, editor, service, call, history, tracker>>

\* onMarkCars(), lines 88-93; the parent answers modeChange by setting the mode
OnMarkCars ==
    /\ mode' = "marking-cars"
    /\ carSelection' = clearSegmentationResults([carSelection EXCEPT !.manualSelections = <<>>])
    /\ UNCHANGED <<segmentation, animationFrameId, pendingFrames, rendering, paused, debugMode,
                   manualSelections, loopCall, tick, editor, service, call, history, tracker>>

\* runSegmentationForSelections(), lines 142-199, up to its first await:
\* frameData tells whether the frameData input holds a frame.  The result is
\* the component and the runs afterwards
runSegmentationForSelections(c, seg, frameData) ==
    IF c.segmentationInProgress \/ Len(c.manualSelections) = 0
    THEN [component |-> c, segmentation |-> seg]
    ELSE IF ~frameData
    THEN [component |-> [c EXCEPT !.segmentationError = Some("no frame")],
          segmentation |-> seg]
    ELSE [component |-> [c EXCEPT !.segmentationInProgress = TRUE,
                                   !.segmentationError = Null,
                                   !.segmentationOverlays = {}],
          segmentation |->
            [seg EXCEPT !.runs = Append(@, SegmentationRun(c.manualSelections,
                                                           IF seg.loaded THEN 1 ELSE 0))]]

\* onConfirmCarSelection(), lines 95-101; the parent answers confirm by
\* setting the mode to 'locked'
OnConfirmCarSelection ==
    IF Len(carSelection.manualSelections) = 0
    THEN UNCHANGED vars
    ELSE \E frameData \in BOOLEAN :
            LET r == runSegmentationForSelections(carSelection, segmentation, frameData)
            IN  /\ Len(r.segmentation.runs) <= MaxRuns
                /\ carSelection' = r.component
                /\ segmentation' = r.segmentation
                /\ mode' = "locked"
                /\ UNCHANGED <<animationFrameId, pendingFrames, rendering, paused, debugMode,
                               manualSelections, loopCall, tick, editor, service, call,
                               history, tracker>>

\* onCancelCarMarking(), lines 103-108; the parent answers cancel by setting
\* the mode to 'locked'
OnCancelCarMarking ==
    /\ carSelection' = clearSegmentationResults([carSelection EXCEPT !.manualSelections = <<>>])
    /\ segmentation' = [segmentation EXCEPT
                            !.runs = [i \in DOMAIN @ |-> [@[i] EXCEPT !.cancelled = TRUE]]]
    /\ mode' = "locked"
    /\ UNCHANGED <<animationFrameId, pendingFrames, rendering, paused, debugMode,
                   manualSelections, loopCall, tick, editor, service, call, history, tracker>>

\* the sequence without its i-th element
Without(seq, i) == SubSeq(seq, 1, i - 1) \o SubSeq(seq, i + 1, Len(seq))

\* the catch and finally blocks, lines 190-198
RunFails(i) ==
    /\ carSelection' = [carSelection EXCEPT !.segmentationError = Some("failed"),
                                            !.segmentationInProgress = FALSE]
    /\ segmentation' = [segmentation EXCEPT !.runs = Without(@, i)]

\* the promise a run awaits settles and the run goes on to its next await or
\* to its end, lines 159-198: outcome is what the promise brought
ResumeRun ==
    /\ \E i \in DOMAIN segmentation.runs, outcome \in {"mask", "no mask", "throw"} :
        LET run == segmentation.runs[i]
            n == Len(run.selections)
        IN  IF run.at = 0
            THEN IF outcome = "mask"
                 THEN /\ segmentation' = [segmentation EXCEPT !.loaded = TRUE,
                                                              !.runs[i].at = 1]
                      /\ UNCHANGED carSelection
                 ELSE RunFails(i)
            ELSE IF outcome = "throw" THEN RunFails(i)
            ELSE LET overlays == IF outcome = "mask"
                                 THEN run.overlays \cup {run.selections[run.at].id}
                                 ELSE run.overlays
                 IN  IF run.at < n
                     THEN /\ segmentation' = [segmentation EXCEPT
                                                !.runs[i].at = run.at + 1,
                                                !.runs[i].overlays = overlays]
                          /\ UNCHANGED carSelection
                     ELSE /\ carSelection' = [carSelection EXCEPT
                                                !.segmentationOverlays = overlays,
                                                !.segmentationInProgress = FALSE]
                          /\ segmentation' =
                                [segmentation EXCEPT
                                    !.runs = Without(@, i),
                                    !.published = Some([overlays |-> overlays,
                                                        cancelled |-> run.cancelled])]
    /\ UNCHANGED <<loop, editor, service, call, history, tracker>>

NextCars ==
    \/ HandleCanvasClick
    \/ OnMarkCars
    \/ OnConfirmCarSelection
    \/ OnCancelCarMarking
    \/ ResumeRun

SpecCars == Init /\ [][NextCars]_vars

(* ------------------------------- claims ------------------------------ *)

\* computeHomography(frameIndex, _) has just returned
Computed == call.op = "computeHomography"

\* reference descriptors are present and non-empty
HasReferenceDescriptors == referenceDescriptors # Null /\ Len(referenceDescriptors[1]) > 0

\* the entry cached under the greatest frame index below frameIndex, identity if none
GreatestEarlierEntry(m, frameIndex) ==
    LET earlier == {i \in DOMAIN m : 0 <= i /\ i < frameIndex}
    IN  IF earlier = {} THEN Mat3(1, 0, 0, 0, 1, 0, 0, 0, 1)
        ELSE m[CHOOSE i \in earlier : \A j \in earlier : j <= i]

\* the fallback conditions of a backend run on an image: an exception, fewer
\* than 4 keypoints, fewer than 4 matches with distance < 50, or an empty fit
FallsBack(image, run) ==
    \/ run.throwAt # NoThrow
    \/ KeypointsOf(image) < 4
    \/ Cardinality({k \in 1..Len(run.matches) : run.matches[k] < 50}) < 4
    \/ run.fit = Empty

\* C1: whenever computeHomography has just been called for the reference frame
\* index, it returned exactly the identity matrix and the cache holds identity
\* under that index.
C1_ReferenceFrameIsIdentity ==
    (Computed /\ call.frameIndex = referenceFrameIndex) =>
        /\ call.result = Some(Mat3(1, 0, 0, 0, 1, 0, 0, 0, 1))
        /\ homographies[call.frameIndex[1]] = Mat3(1, 0, 0, 0, 1, 0, 0, 0, 1)

\* C1 witness: the reference frame was computed while the backend was ready,
\* reference descriptors existed and the cache held a fitted matrix elsewhere
C1_Witness ==
    /\ Computed /\ call.frameIndex = referenceFrameIndex
    /\ cvReady /\ HasReferenceDescriptors
    /\ \E i \in DOMAIN homographies : homographies[i] = FitProjective

\* C2: in every reachable state, a computeHomography call that falls back
\* returns the entry cached under the greatest frame index below its own
\* (identity if there is none) and caches that value under its own index.
C2_FallbackIsGreatestEarlierEntry ==
    \A frameIndex \in Frames, image \in Images :
        (Some(frameIndex) # referenceFrameIndex /\ cvReady /\ HasReferenceDescriptors) =>
            \A run \in BackendRuns(image, Len(referenceDescriptors[1])) :
                FallsBack(image, run) =>
                    LET r == ComputeNow(frameIndex, image, run)
                    IN  /\ r.result = GreatestEarlierEntry(homographies, frameIndex)
                        /\ r.homographies[frameIndex] = r.result

\* C2 witness: frame 1 fitted, frame 2 then failed for lack of good matches
\* and took over frame 1's entry, which differs from frame 0's
C2_Witness ==
    /\ Computed /\ call.path = "fallback" /\ call.frameIndex = Some(2)
    /\ DOMAIN homographies = {0, 1, 2}
    /\ homographies[1] = FitProjective /\ homographies[2] = homographies[1]
    /\ homographies[0] # homographies[1]

\* C3 as stated: every failed call after a successful fit returns the last
\* fitted matrix, whatever its frame index.
C3_PlateauAnyOrder ==
    (Computed /\ call.path = "fallback" /\ lastFit # Null) => call.result = lastFit

\* C3 amended: a failed call returns the last fitted matrix whenever that
\* matrix is the entry cached under the greatest cached frame index below the
\* failing frame's index.
C3_PlateauAboveFit ==
    \A frameIndex \in Frames, image \in Images :
        (Some(frameIndex) # referenceFrameIndex /\ cvReady /\ HasReferenceDescriptors
            /\ lastFit # Null
            /\ \E i \in DOMAIN homographies : i < frameIndex
            /\ GreatestEarlierEntry(homographies, frameIndex) = lastFit[1]) =>
            \A run \in BackendRuns(image, Len(referenceDescriptors[1])) :
                FallsBack(image, run) =>
                    LET r == ComputeNow(frameIndex, image, run)
                    IN  r.result = lastFit[1] /\ r.homographies[frameIndex] = lastFit[1]

\* C3 witness: the fit of frame 1 survived a failed frame 2
C3_Witness ==
    /\ Computed /\ call.path = "fallback" /\ call.frameIndex = Some(2)
    /\ lastFit = Some(FitProjective) /\ call.result = lastFit
    /\ 1 \in DOMAIN homographies /\ homographies[1] = FitProjective

\* the most recent setReferenceFrame extracted no descriptor, or could not
\* extract at all
ReferenceExtractionFailed ==
    \/ lastSetReference \in {"not_ready", "exception"}
    \/ lastSetReference = "extracted" /\ ~HasReferenceDescriptors

\* C4 as stated: when the most recent setReferenceFrame extracted zero
\* descriptors or could not extract at all, every computeHomography call
\* returns identity.
C4_IdentityAfterFailedExtraction ==
    (Computed /\ ReferenceExtractionFailed) => call.result = Some(Mat3(1, 0, 0, 0, 1, 0, 0, 0, 1))

\* C5 as stated: an entry cached under the current reference frame index is
\* the identity matrix.
C5_ReferenceEntryIsIdentity ==
    (referenceFrameIndex # Null /\ referenceFrameIndex[1] \in DOMAIN homographies) =>
        homographies[referenceFrameIndex[1]] = Mat3(1, 0, 0, 0, 1, 0, 0, 0, 1)

\* C6 as stated: every step other than clear() keeps every cached entry and
\* its value.
C6_AppendOnly ==
    [][Clear \/ \A i \in DOMAIN homographies :
                    i \in DOMAIN homographies' /\ homographies'[i] = homographies[i]]_vars

\* C6 amended: no step other than clear() removes an entry, and the only
\* entry whose value a step changes is the one under the frame index of the
\* computeHomography call the step performs.
C6_NeverRemovedOnlyRecomputed ==
    [][Clear \/ \A i \in DOMAIN homographies :
                    /\ i \in DOMAIN homographies'
                    /\ homographies'[i] # homographies[i] =>
                           call'.op = "computeHomography" /\ call'.frameIndex = Some(i)]_vars

\* C6 witness: frame 1 was recomputed with a new fit while frames 0 and 2
\* stayed cached with other values
C6_Witness ==
    /\ Computed /\ call.path = "fitted" /\ call.frameIndex = Some(1)
    /\ DOMAIN homographies = {0, 1, 2}
    /\ homographies[1] = FitSingular
    /\ homographies[0] = FitProjective /\ homographies[2] = FitProjective

\* |a| > 1e-10
AboveEpsilon(a) == Abs(a[1]) > (a[2] \div EpsRoot) \div EpsRoot

\* C7 as stated: every cached matrix is well-formed, |det| > 1e-10.
C7_CachedMatricesWellFormed ==
    \A i \in DOMAIN homographies : AboveEpsilon(Det(Exact(homographies[i])))

\* C8 as stated: clear() leaves the state of a fresh service, and while no
\* reference frame has been set since, computeHomography returns identity.
C8_ClearIsFresh ==
    /\ call.op = "clear" =>
            /\ homographies = EmptyMap
            /\ referenceFrameIndex = Null /\ referenceFrameImage = Null
            /\ currentFrameIndex = 0
    /\ (Computed /\ referenceFrameIndex = Null) =>
            call.result = Some(Mat3(1, 0, 0, 0, 1, 0, 0, 0, 1))

\* C9 as stated: when setReferenceFrame returns, the reference keypoints and
\* descriptors are those of the new image, or empty (null or without rows)
\* when nothing was extracted; and computeHomography only ever matches
\* against the descriptors of the current reference image.
C9_ReferenceStateOverwritten ==
    /\ call.op = "setReferenceFrame" =>
            /\ referenceKeypoints = referenceDescriptors
            /\ IF call.path = "extracted"
               THEN referenceDescriptors = Some(Extracted(referenceFrameImage[1]))
               ELSE referenceDescriptors = Null \/ referenceDescriptors = Some(<<>>)
    /\ referenceFrameImage # Null =>
            \A frameIndex \in Frames, image \in Images :
                \A run \in BackendRunsNow(frameIndex, image) :
                    LET r == ComputeNow(frameIndex, image, run)
                    IN  r.matched # Null => r.matched = Some(Extracted(referenceFrameImage[1]))

\* the matrix cached under frameIndex is singular, |det| <= 1e-10
CachedSingular(frameIndex) ==
    frameIndex \in DOMAIN homographies /\ ~AboveEpsilon(Det(Exact(homographies[frameIndex])))

\* C10: whenever transformTrackLine has just been called for a frame index,
\* it returned as many points as the line has, and in that state it returns
\* for every polyline as many points as it is given, each the image of the
\* input point at its position; the output is the input itself when no entry
\* is cached for the frame or the cached one is singular.
C10_TransformKeepsLength ==
    call.op = "transformTrackLine" =>
        LET frameIndex == call.frameIndex[1]
            unmoved == frameIndex \notin DOMAIN homographies \/ CachedSingular(frameIndex)
        IN  /\ Len(call.out) = Len(TrackLine)
            /\ unmoved => call.out = TrackLine
            /\ \A line \in TrackLines :
                    LET out == transformTrackLine(homographies, line, frameIndex)
                    IN  /\ Len(out) = Len(line)
                        /\ out = SubSeq(call.out, 1, Len(line))
                        /\ unmoved => out = line

\* C10 witness: the line was moved by an invertible cached matrix
C10_Witness ==
    /\ call.op = "transformTrackLine" /\ Len(call.out) = MaxLine
    /\ call.frameIndex[1] \in DOMAIN homographies
    /\ homographies[call.frameIndex[1]] = FitProjective
    /\ call.out[2] # TrackLine[2] /\ call.out[1] = TrackLine[1]

\* C11 as stated: whenever transformTrackLine has just been called for the
\* current reference frame index, it returned the line unchanged.
C11_ReferenceLineUnchanged ==
    (call.op = "transformTrackLine" /\ referenceFrameIndex # Null
        /\ call.frameIndex = referenceFrameIndex) => call.out = TrackLine

(* ---------------------- claims about the tracker ----------------------- *)

\* updateTrackedPositions has just returned
Tracking == tcall.op = "updateTrackedPositions"

\* C12: whenever updateTrackedPositions has just returned, the list returned
\* has the length of the list given and holds the same ids in the same order.
C12_SameLengthIdsOrder ==
    Tracking =>
        /\ Len(tcall.updated) = Len(tcall.selections)
        /\ \A k \in DOMAIN tcall.selections : tcall.updated[k].id = tcall.selections[k].id

\* C12 witness: of two objects the first was moved to an accepted match and
\* the second, which has no template, was passed through
C12_Witness ==
    /\ Tracking /\ tcall.paths = <<"accepted", "no_template">>
    /\ tcall.updated[1] # tcall.selections[1]
    /\ tcall.updated[2] = tcall.selections[2]

\* the correlation scores, in hundredths
Scores == 0..100

\* initializeTemplates has just returned: the states in which every template
\* map the tracker can hold (but the empty one) is first seen
Initialized == tcall.op = "initializeTemplates"

\* C13: whenever initializeTemplates has just returned, for every object that
\* has a template and a search window large enough, a call that searches it
\* with a best score s at a location loc accepts the match exactly when
\* s >= 0.7: it then returns the template's footprint at loc as bounding box
\* and its middle as center, and otherwise returns the object it was given.
C13_AcceptedFromThreshold ==
    Initialized =>
    \A id \in 1..MaxCars, box \in TrackedBoxes :
        LET sel == Car(id, box)
        IN  (sel.id \in DOMAIN trackingTemplates
                /\ ~WindowTooSmall(trackingTemplates[sel.id], sel)) =>
            LET tpl == trackingTemplates[sel.id]
                win == SearchWindow(sel)
            IN  \A s \in Scores, loc \in {<<0, 0>>, <<win.actualW - tpl.cols,
                                                    win.actualH - tpl.rows>>} :
                    LET r == updateTrackedPositions(
                                 trackingTemplates, <<sel>>,
                                 [throwAt |-> NoThrow, objects |-> <<ObjectRun(NoThrow, s, loc)>>])
                    IN  IF s >= 70
                        THEN /\ r.paths = <<"accepted">>
                             /\ r.updated[1].bbox = <<Num(win.x0 + loc[1]), Num(win.y0 + loc[2]),
                                                      Num(tpl.cols), Num(tpl.rows)>>
                             /\ r.updated[1].center =
                                    [x |-> Rat(2 * (win.x0 + loc[1]) + tpl.cols, 2),
                                     y |-> Rat(2 * (win.y0 + loc[2]) + tpl.rows, 2)]
                        ELSE r.updated = <<sel>>

\* C13 witness: a match whose score is exactly on the threshold (the one
\* reported at the far corner of the result) was accepted
C13_Witness ==
    /\ Tracking /\ tcall.paths = <<"accepted">>
    /\ tcall.selections[1].bbox = <<Num(15), Num(10), Num(10), Num(10)>>
    /\ tcall.updated[1].bbox = <<Num(20), Num(15), Num(10), Num(10)>>

\* C14 as stated: when the backend fails while one object is updated, the
\* objects accepted before it come back at their new positions and the objects
\* after it are still reached.  (In this model an accepted match never lies
\* where the object was, so a new position differs from the old one.)
C14_ErrorAffectsOneObject ==
    (Tracking /\ \E k \in DOMAIN tcall.paths : tcall.paths[k] = "error") =>
        /\ Len(tcall.paths) = Len(tcall.selections)
        /\ \A j \in DOMAIN tcall.paths :
                tcall.paths[j] = "accepted" => tcall.updated[j] # tcall.selections[j]

\* a selection inside the frame, centered at (cx, cy), with a 10 x 10 box
Centered(cx, cy) == Car(1, <<cx - 5, cy - 5, 10, 10>>)

\* C15: whenever initializeTemplates has just returned and object 1 has a
\* 10 x 10 template, for every integer center whose 20 x 20 search window
\* lies inside the frame and every shift (dx, dy) within 5 pixels, a call
\* for which the backend reports the best match (score >= 0.7) at the
\* object's place shifted by (dx, dy) returns the center plus exactly (dx, dy).
C15_ExactShift ==
    (Initialized /\ 1 \in DOMAIN trackingTemplates /\ trackingTemplates[1].cols = 10
        /\ trackingTemplates[1].rows = 10) =>
        \A cx \in {10, 20, 30}, cy \in {10, 15, 20}, dx \in -5..5, dy \in -5..5, s \in {70, 100} :
            LET sel == Centered(cx, cy)
                \* the window starts 10 left of and above the center, the
                \* object's box 5: the match is reported relative to the window
                maxLoc == <<5 + dx, 5 + dy>>
                r == updateTrackedPositions(
                         trackingTemplates, <<sel>>,
                         [throwAt |-> NoThrow, objects |-> <<ObjectRun(NoThrow, s, maxLoc)>>])
            IN  r.updated[1].center = [x |-> Num(cx + dx), y |-> Num(cy + dy)]

\* C15 witness: the object marked at (20, 15) was found 5 pixels further
\* right and down and its center moved to (25, 20)
C15_Witness ==
    /\ Tracking /\ tcall.paths = <<"accepted">>
    /\ trackingTemplates[1].cols = 10 /\ trackingTemplates[1].rows = 10
    /\ tcall.selections[1].center = [x |-> Num(20), y |-> Num(15)]
    /\ tcall.updated[1].center = [x |-> Num(25), y |-> Num(20)]

\* C16: no step after which updateTrackedPositions is the call that has just
\* returned changes the template map, and every step that changes it is an
\* initializeTemplates or clearTemplates call.
C16_TemplatesOnlySetByInitAndClear ==
    [][/\ tcall'.op = "updateTrackedPositions" => trackingTemplates' = trackingTemplates
       /\ trackingTemplates' # trackingTemplates =>
                tcall'.op \in {"initializeTemplates", "clearTemplates"}]_vars

\* C16 witness: two templates are held after a call that accepted a match
\* for one object and rejected the other's
C16_Witness ==
    /\ Tracking /\ tcall.paths = <<"accepted", "low_confidence">>
    /\ DOMAIN trackingTemplates = {1, 2}
    /\ trackingTemplates[1].pixels = <<15, 10>> /\ trackingTemplates[1].cols = 10

\* the area of a box clipped to the frame
ClippedArea(bbox) ==
    LET x == MathRound(bbox[1])
        y == MathRound(bbox[2])
        w == MathRound(bbox[3])
        h == MathRound(bbox[4])
        width == Min(x + w, FrameSize.cols) - Max(x, 0)
        height == Min(y + h, FrameSize.rows) - Max(y, 0)
    IN  IF width <= 0 \/ height <= 0 THEN 0 ELSE width * height

\* C17 as stated: whenever initializeTemplates has just run with the backend
\* loaded and the frame converted, the selections that have a template are
\* exactly those whose box clipped to the frame has a positive area.
C17_SkipsExactlyEmptyBoxes ==
    (tcall.op = "initializeTemplates" /\ tcall.path \notin {"not_ready", "convert_failed"}) =>
        \A k \in DOMAIN tcall.selections :
            LET sel == tcall.selections[k]
            IN  sel.id \in DOMAIN trackingTemplates <=> ClippedArea(sel.bbox) > 0

\* C18: in every reachable state no template buffer is lost (unreachable and
\* unreleased), none has been released twice and none in the map is released;
\* initializeTemplates and clearTemplates release exactly the templates held
\* when they begin and initializeTemplates then holds only new ones, one for
\* each selection it did not skip or fail on; clearTemplates on an empty map
\* releases nothing.
C18_TemplatesHeldOrReleasedOnce ==
    /\ lostTemplates = 0
    /\ tcall.twice = 0
    /\ \A i \in DOMAIN trackingTemplates : ~trackingTemplates[i].deleted
    /\ tcall.op \in {"initializeTemplates", "clearTemplates"} => tcall.released = tcall.held
    /\ tcall.op = "clearTemplates" => trackingTemplates = EmptyMap
    /\ tcall.op = "initializeTemplates" =>
            DOMAIN trackingTemplates \subseteq {tcall.selections[k].id : k \in DOMAIN tcall.selections}

\* C18 witness: initializeTemplates found two templates, released both and
\* holds one new template
C18_Witness ==
    /\ tcall.op = "initializeTemplates" /\ tcall.held = 2 /\ tcall.released = 2
    /\ DOMAIN trackingTemplates = {2}

\* computeHomography returns with none of the buffers it allocated still
\* live, for every frame, image and backend run it can meet
ComputeHomographyReleasesAll ==
    \A frameIndex \in Frames, image \in Images :
        \A run \in BackendRunsNow(frameIndex, image) :
            computeHomographyLive(referenceFrameIndex, cvReady, referenceDescriptors,
                                  frameIndex, image, run) = 0

\* C19 as stated: updateTrackedPositions returns with none of the buffers it
\* allocated still live, and so does computeHomography.
C19_NoLiveBufferBetweenCalls ==
    /\ Tracking => tcall.live = 0
    /\ ComputeHomographyReleasesAll

SpecifiedWindow(template, sel) ==
    LET w == trackingSearchMultiplier * template.cols
        h == trackingSearchMultiplier * template.rows
        left == MathRound(RSub(sel.center.x, Rat(w, 2)))
        top == MathRound(RSub(sel.center.y, Rat(h, 2)))
        x0 == Max(0, left)
        y0 == Max(0, top)
        x1 == Min(FrameSize.cols, left + w)
        y1 == Min(FrameSize.rows, top + h)
    IN  [x0 |-> x0, y0 |-> y0, actualW |-> Max(0, x1 - x0), actualH |-> Max(0, y1 - y0)]

\* boxes crossing the left border, crossing the right border, and inside
BorderBoxes == {<<-3, 10, 10, 10>>, <<35, 10, 10, 10>>, OrdinaryBox}

\* C22 as stated: whenever initializeTemplates has just returned, the window
\* the next updateTrackedPositions searches for each selection that got a
\* template is the rectangle of twice the template's size centered on the
\* selection's center, cut to the frame; and so it is for a box that crosses
\* a border of the frame and the template cut from it.
C22_WindowIsClippedCenteredRectangle ==
    Initialized =>
    /\ \A k \in DOMAIN tcall.selections :
            LET sel == tcall.selections[k]
            IN  sel.id \in DOMAIN trackingTemplates =>
                    SearchWindow(sel) = SpecifiedWindow(trackingTemplates[sel.id], sel)
    /\ \A box \in BorderBoxes :
            ~RoiThrows(RoiRect(Car(1, box).bbox)) =>
                SearchWindow(Car(1, box))
                    = SpecifiedWindow(Template(RoiRect(Car(1, box).bbox)), Car(1, box))

\* the rounded box of a selection cut to the frame
ClippedBox(bbox) ==
    LET x == MathRound(bbox[1])
        y == MathRound(bbox[2])
        w == MathRound(bbox[3])
        h == MathRound(bbox[4])
    IN  [x |-> Max(0, x), y |-> Max(0, y),
         width |-> Min(x + w, FrameSize.cols) - Max(0, x),
         height |-> Min(y + h, FrameSize.rows) - Max(0, y)]

\* C23 as stated: whenever initializeTemplates has just returned, the
\* template of every selection that got one holds exactly the pixels of the
\* selection's rounded box cut to the frame; and the rectangle copied for a
\* box that crosses a border of the frame is the box cut to the frame.
C23_TemplateIsClippedBox ==
    Initialized =>
    /\ \A k \in DOMAIN tcall.selections :
            LET sel == tcall.selections[k]
            IN  sel.id \in DOMAIN trackingTemplates =>
                    trackingTemplates[sel.id] = Template(ClippedBox(sel.bbox))
    /\ \A box \in BorderBoxes : RoiRect(Car(1, box).bbox) = ClippedBox(Car(1, box).bbox)

(* ------------------------ claims about the cache ----------------------- *)

\* C27: the cache is empty at construction; whenever computeHomography(f, _)
\* has just returned H, on whichever path, getHomography(f) is H; a step
\* gives a frame index an entry only if it is a computeHomography call for
\* that index, and after clear() no index has one.
C27_EntryIsResultOnlyForComputedFrames ==
    /\ homographies = EmptyMap
    /\ [](Computed => getHomography(homographies, call.frameIndex[1]) = call.result)
    /\ [][/\ \A g \in Frames :
                (getHomography(homographies, g) = Null
                    /\ getHomography(homographies', g) # Null) =>
                        (call'.op = "computeHomography" /\ call'.frameIndex = Some(g))
          /\ call'.op = "clear" => \A g \in Frames : getHomography(homographies', g) = Null]_vars

\* C27 witness: computeHomography fell back to a fitted matrix cached under
\* an earlier index and cached it under its own, while a third index has no entry
C27_Witness ==
    /\ Computed /\ call.path = "fallback" /\ call.result = Some(FitProjective)
    /\ getHomography(homographies, call.frameIndex[1]) = Some(FitProjective)
    /\ \E g \in Frames : getHomography(homographies, g) = Null

(* ------------------- claims about successive updates ------------------- *)

\* C24: whenever updateTrackedPositions has just returned, every object it
\* reached that has no template, or whose clipped search window is smaller
\* than its template, is returned as it was given (same id, center and
\* bbox); and when no template was held the call returned the very array it
\* was given, with nothing reached.
C24_UntrackedUnchanged ==
    Tracking =>
        /\ \A k \in DOMAIN tcall.paths :
                tcall.paths[k] \in {"no_template", "window_small"} =>
                    tcall.updated[k] = tcall.selections[k]
        /\ tcall.held = 0 =>
                (tcall.same /\ tcall.updated = tcall.selections /\ tcall.paths = <<>>)

\* C24 witness: of two objects the first has a 10 x 10 template but a search
\* window only 5 pixels wide, the second has no template, and both came
\* back as they were given in a new array
C24_Witness ==
    /\ Tracking /\ tcall.paths = <<"window_small", "no_template">>
    /\ tcall.updated = tcall.selections /\ ~tcall.same
    /\ SearchWindow(tcall.selections[1]).actualW = 5

\* C28: whenever updateTrackedPositions has just returned without a backend
\* failure, also when the list it was given is the one the previous call
\* returned, every object it accepted a match for has a bbox of exactly the
\* template's width and height that lies inside the frame, and its center
\* is the middle of that bbox.
C28_AcceptedBoxInsideFrame ==
    (Tracking /\ ~tcall.caught) =>
        \A k \in DOMAIN tcall.paths :
            tcall.paths[k] = "accepted" =>
                LET sel == tcall.updated[k]
                    tpl == trackingTemplates[sel.id]
                    x == sel.bbox[1]
                    y == sel.bbox[2]
                IN  /\ sel.bbox[3] = Num(tpl.cols) /\ sel.bbox[4] = Num(tpl.rows)
                    /\ x[2] = 1 /\ y[2] = 1
                    /\ 0 <= x[1] /\ x[1] + tpl.cols <= FrameSize.cols
                    /\ 0 <= y[1] /\ y[1] + tpl.rows <= FrameSize.rows
                    /\ sel.center = [x |-> RAdd(x, Rat(tpl.cols, 2)),
                                     y |-> RAdd(y, Rat(tpl.rows, 2))]

\* C28 witness: an object that earlier calls had moved to (30, 20), where its
\* search window is cut by the right and the bottom border, was accepted
\* again and its box ends exactly on both borders
C28_Witness ==
    /\ Tracking /\ tcall.paths = <<"accepted">>
    /\ tcall.selections[1].bbox = <<Num(30), Num(20), Num(10), Num(10)>>
    /\ tcall.updated[1].bbox = <<Num(30), Num(20), Num(10), Num(10)>>
    /\ tcall.updated[1].center = [x |-> Num(35), y |-> Num(25)]

(* ---------------------- claims about the render loop ------------------- *)

\* C21: under any interleaving of start(), stop() and animation-frame
\* callbacks at most one callback is pending, it is the one whose handle
\* the service holds, and none is pending while a callback does its work:
\* the next one is requested only after updateAndRender has returned, and a
\* start() on a running loop adds none
C21_OneCallbackAtATime ==
    /\ Cardinality(pendingFrames) <= 1
    /\ rendering # "idle" => pendingFrames = {}
    /\ pendingFrames # {} => animationFrameId # Null /\ pendingFrames = {animationFrameId[1]}

\* start() was called on a loop that was running and had rendered a frame
C21_Witness ==
    /\ loopCall.op = "start"
    /\ loopCall.wasRunning
    /\ tick.played
    /\ Cardinality(pendingFrames) = 1

\* C25: every tick that finds the video playing and captures a frame calls
\* computeHomography for the tick's frame index before the track line is
\* transformed, so that transformTrackLine finds a cached entry for
\* currentFrameIndex
C25_TickEstimatesBeforeTransform ==
    (tick.played /\ tick.captured) =>
        /\ tick.estimated
        /\ tick.transformed => tick.found

\* C26: after stop() no callback is pending and none runs until start() is
\* called again (a callback runs only if it is pending), and after that
\* start() exactly one callback is pending, the one whose handle is held
C26_StoppedLoopStaysStopped ==
    /\ loopCall.op = "stop" => animationFrameId = Null
    /\ animationFrameId = Null => pendingFrames = {} /\ rendering = "idle"
    /\ (loopCall.op = "start" /\ loopCall.stopped) =>
            animationFrameId # Null /\ pendingFrames = {animationFrameId[1]}

\* start() was called after stop() had cancelled a loop that had rendered
C26_Witness ==
    /\ loopCall.op = "start"
    /\ loopCall.stopped
    /\ ~loopCall.wasRunning
    /\ tick.played
    /\ pendingFrames = {1}

(* ---------------------- claims about track mapping --------------------- *)

\* C29: after any sequence of the track-mapping handlers (onSelectTrackLine,
\* canvas clicks, onUndo, onReset, onFinish, onConfirmStartFinish), whenever
\* the mode is 'locked' the track line has more than 4 points and the start
\* index is one of its indices: 0 <= startIndex < trackLine.length
C29_LockedLineIsComplete ==
    mode = "locked" =>
        /\ Len(trackLine) > 4
        /\ startIndex # Null
        /\ 0 <= startIndex[1] /\ startIndex[1] < Len(trackLine)

(* ---------------------- claims about car selection --------------------- *)

\* the ids of the selections the component holds
SelectedIds ==
    {carSelection.manualSelections[k].id : k \in DOMAIN carSelection.manualSelections}

\* C30: under any interleaving of onConfirmCarSelection, onCancelCarMarking,
\* onMarkCars and the completion of segmentation runs, at most one run is in
\* flight, every key of segmentationOverlays is the id of a selection in
\* manualSelections, and a run that was awaiting when the user cancelled
\* does not publish overlays afterwards
C30_OneRunAndOverlaysOfSelections ==
    /\ Len(segmentation.runs) <= 1
    /\ carSelection.segmentationOverlays \subseteq SelectedIds
    /\ segmentation.published # Null => ~segmentation.published[1].cancelled

====
